---- MODULE Spec2Model ----
(***************************************************************************)
(* Model of the semantic retrieval engine of Drona.ai:                     *)
(*   drona_ai/rag/vector_store.py  (VectorStore)                           *)
(*   drona_ai/rag/endee_client.py  (EndeeClient)                           *)
(*   drona_ai/main.py              (split_text_into_chunks)                *)
(*   drona_ai/rag/retriever.py     (Retriever)                             *)
(* Python lists are sequences; a Python index i is position i + 1.         *)
(***************************************************************************)
EXTENDS Integers, Sequences, FiniteSets, TLC

VARIABLES
    endee_available,  \* VectorStore.endee_available
    endee_client,     \* TRUE iff VectorStore.endee_client is not None
    texts,            \* VectorStore.texts
    embeddings,       \* VectorStore.embeddings
    metadata,         \* VectorStore.metadata
    id_counter,       \* VectorStore._id_counter
    id_to_index,      \* VectorStore.id_to_index (dict: id -> Python index)
    remote,           \* the vectors held by the Endee server: {[id, vector]}
    built,            \* how the store was constructed: use_endee, whether the
                      \* client constructor raised, what health_check got
    id_record,        \* for each id generated: the text and metadata stored with it
    inserted,         \* records passed to add_text/add_texts since the last clear
    last,             \* the last call on the store (the constructor at first)
                      \* and what it returned; contacted: it sent an insert
                      \* or a search to the server; failed: that one failed
    chunker,          \* one call of split_text_into_chunks: its arguments, its
                      \* locals (start, chunks), the window starts so far, pc
    thread,           \* two threads calling into one store: adder runs add_text
                      \* or add_texts, searcher runs search (or both run
                      \* add_text); each with its position (pc), arguments
                      \* and locals
    retriever         \* the Retriever around the store: use_llm, and whether
                      \* Retriever.llm is an object (TRUE) or None

vars == <<endee_available, endee_client, texts, embeddings, metadata,
          id_counter, id_to_index, remote, built, id_record,
          inserted, last, chunker, thread, retriever>>

(***************************************************************************)
(* Bounds and input sets.                                                  *)
(***************************************************************************)
MaxDocs == 2
MaxBatch == 2
MaxTopK == 2
MaxTextLen == 7
MaxChunkSize == 5

\* The documents callers store: a text, its embedding (callers embed a text
\* before they store it, and the embedder is deterministic) and its metadata
\* (None, or a dict).
Documents == {[text |-> "a", embedding |-> <<1, 0>>, metadata |-> "None"],
              [text |-> "b", embedding |-> <<0, 1>>, metadata |-> "{source}"]}
Queries == {<<1, 0>>, <<1, 1>>}
EmptyDict == "{}"
NoneValue == "None"
TopKs == 1..MaxTopK

\* What the HTTP layer (requests.Session) can do on one request.
HttpOutcomes == {"200", "500", "exception"}
\* A 200 answer to a search carries a body that is not JSON, or JSON without
\* a "results" key, or JSON with one.
SearchOutcomes == {"200", "200_no_results", "200_not_json", "500", "exception"}

StaleId == "z_0"

(***************************************************************************)
(* Arithmetic helpers for cosine similarity on integer vectors.            *)
(***************************************************************************)
RECURSIVE Gcd(_, _)
Gcd(a, b) == IF b = 0 THEN a ELSE Gcd(b, a % b)

Abs(n) == IF n < 0 THEN -n ELSE n

\* np.dot of two vectors of one length
RECURSIVE DotUpTo(_, _, _)
DotUpTo(u, v, n) == IF n = 0 THEN 0 ELSE DotUpTo(u, v, n - 1) + u[n] * v[n]

Dot(u, v) == DotUpTo(u, v, Len(u))

\* _cosine_similarity for one stored vector: dot(v/|v|, q/|q|).  The float is
\* represented exactly by its signed square as a reduced fraction <<num, den>>:
\* sign(q.v) * (q.v)^2 / (|q|^2 |v|^2), which orders pairs as the cosine does.
CosineSimilarity(q, v) ==
    LET d == Dot(q, v)
        n == d * d
        m == Dot(q, q) * Dot(v, v)
        g == Gcd(n, m)
    IN  <<(IF d < 0 THEN -1 ELSE 1) * (n \div g), m \div g>>

\* s < t on the encoded similarities (denominators are positive).
SimLess(s, t) == s[1] * t[2] < t[1] * s[2]

Min(a, b) == IF a < b THEN a ELSE b

\* seq[:k] for k >= 0
Take(seq, k) == SubSeq(seq, 1, Min(k, Len(seq)))

(***************************************************************************)
(* EndeeClient (endee_client.py): every method catches the exceptions of   *)
(* the HTTP layer and answers False / None instead.                        *)
(***************************************************************************)
EndeeHealthCheck(http) == http = "200"

EndeeCreateIndex(http) == http = "200"

EndeeInsertVectors(http) == http = "200"

EndeeDeleteIndex(http) == http = "200"

\* None is [ok |-> FALSE]; a list is [ok |-> TRUE, items |-> the list].
\* result.get('results', []) answers [] for a body without the key.
EndeeSearch(http, body) ==
    IF http = "200"
    THEN [ok |-> TRUE, items |-> body]
    ELSE IF http = "200_no_results"
    THEN [ok |-> TRUE, items |-> <<>>]
    ELSE [ok |-> FALSE, items |-> <<>>]

(***************************************************************************)
(* The Endee server, as far as the store can observe it: it keeps the      *)
(* vectors of every insert it answered 200 (an id sent again replaces the  *)
(* vector), and a search answers the k nearest by the same cosine measure. *)
(* Its index outlives the process: it starts with a vector of an earlier   *)
(* session, whose id this store never generated.                           *)
(***************************************************************************)
RemoteUpsert(index, batch) ==
    LET sent_ids == {batch[i].id : i \in 1..Len(batch)}
    IN  {rec \in index : rec.id \notin sent_ids}
        \cup {batch[i] : i \in 1..Len(batch)}

\* The server's ranking: larger similarity first; the order among equal
\* similarities is the server's own (a fixed arbitrary choice here).
RECURSIVE RemoteRank(_, _)
RemoteRank(index, q) ==
    IF index = {} THEN <<>>
    ELSE LET best == CHOOSE r \in index : \A o \in index :
                        ~SimLess(CosineSimilarity(q, r.vector),
                                 CosineSimilarity(q, o.vector))
         IN  <<[id |-> best.id, score |-> CosineSimilarity(q, best.vector)]>>
             \o RemoteRank(index \ {best}, q)

RemoteSearchBody(index, q, k) == Take(RemoteRank(index, q), k)

(***************************************************************************)
(* VectorStore (vector_store.py)                                           *)
(***************************************************************************)
\* _try_connect_endee: the EndeeClient constructor may raise; health_check
\* and create_index never do.  The value create_index returns is not read.
TryConnectEndee(use_endee, ctor, health, create) ==
    IF ~use_endee
    THEN [endee_available |-> FALSE, endee_client |-> FALSE]
    ELSE IF ctor = "exception"
    THEN [endee_available |-> FALSE, endee_client |-> FALSE]
    ELSE IF EndeeHealthCheck(health)
    THEN [endee_available |-> TRUE, endee_client |-> TRUE]
    ELSE [endee_available |-> FALSE, endee_client |-> TRUE]

\* Faulty variant of UseRemote: the guard forgets endee_available.
UseRemoteClientOnly == endee_client

\* The guard of the remote branch in add_text, add_texts and search.
UseRemote == endee_available /\ endee_client

\* _generate_id: md5(f"{text}_{counter}")[:16]; the digest is taken to be
\* collision free, so the hashed string stands for the id.
GenerateId(text, counter) == text \o "_" \o ToString(counter)

\* np.argsort(similarities)[::-1]: the ascending stable order, reversed, so
\* the larger similarity comes first and of two equal ones the later position.
RECURSIVE ArgsortAscending(_, _)
\* Faulty variant of ArgsortReversed: the [::-1] is missing, so the smallest
\* similarity comes first.
ArgsortAscending(sims, left) ==
    IF left = {} THEN <<>>
    ELSE LET least == CHOOSE i \in left : \A j \in left \ {i} :
                         \/ SimLess(sims[i], sims[j])
                         \/ (~SimLess(sims[j], sims[i]) /\ i < j)
         IN  <<least>> \o ArgsortAscending(sims, left \ {least})

RECURSIVE ArgsortReversed(_, _)
ArgsortReversed(sims, left) ==
    IF left = {} THEN <<>>
    ELSE LET best == CHOOSE i \in left : \A j \in left \ {i} :
                        \/ SimLess(sims[j], sims[i])
                        \/ (~SimLess(sims[i], sims[j]) /\ j < i)
         IN  <<best>> \o ArgsortReversed(sims, left \ {best})

Similarities(embs, q) == [i \in 1..Len(embs) |-> CosineSimilarity(q, embs[i])]

\* top_indices of _search_in_memory, as positions (Python index + 1)
TopIndices(embs, q, k) ==
    Take(ArgsortReversed(Similarities(embs, q), 1..Len(embs)), k)

\* _search_in_memory on the lists given
SearchInMemoryOn(txts, embs, metas, q, k) ==
    LET top == TopIndices(embs, q, k)
    IN  [n \in 1..Len(top) |->
            <<txts[top[n]], CosineSimilarity(q, embs[top[n]]), metas[top[n]]>>]

SearchInMemory(q, k) == SearchInMemoryOn(texts, embeddings, metadata, q, k)

\* Faulty variant of AddText: the local write is undone when the remote insert fails.
AddTextRollback(text, embedding, md, http) ==
    LET failed == UseRemote /\ ~EndeeInsertVectors(http)
    IN  [texts |-> IF failed THEN texts ELSE Append(texts, text),
         embeddings |-> IF failed THEN embeddings ELSE Append(embeddings, embedding),
         metadata |-> IF failed THEN metadata
                      ELSE Append(metadata, IF md = NoneValue THEN EmptyDict ELSE md),
         id_counter |-> IF UseRemote THEN id_counter + 1 ELSE id_counter,
         id_to_index |-> IF UseRemote /\ ~failed
                         THEN (GenerateId(text, id_counter) :> Len(texts)) @@ id_to_index
                         ELSE id_to_index,
         endee_available |-> endee_available,
         sent |-> IF UseRemote
                  THEN <<[id |-> GenerateId(text, id_counter), vector |-> embedding]>>
                  ELSE <<>>,
         contacted |-> UseRemote,
         failed |-> failed,
         raised |-> FALSE]

\* add_text: what the call leaves in each field; sent is the batch handed to
\* insert_vectors (<<>> when the remote branch is not taken).
AddText(text, embedding, md, http) ==
    LET text_index == Len(texts)
        use_remote == UseRemote
        vector_id == GenerateId(text, id_counter)
    IN  [texts |-> Append(texts, text),
         embeddings |-> Append(embeddings, embedding),
         metadata |-> Append(metadata, IF md = NoneValue THEN EmptyDict ELSE md),
         id_counter |-> IF use_remote THEN id_counter + 1 ELSE id_counter,
         id_to_index |-> IF use_remote
                         THEN (vector_id :> text_index) @@ id_to_index
                         ELSE id_to_index,
         endee_available |-> endee_available,
         sent |-> IF use_remote
                  THEN <<[id |-> vector_id, vector |-> embedding]>>
                  ELSE <<>>,
         contacted |-> use_remote,
         failed |-> use_remote /\ ~EndeeInsertVectors(http),
         raised |-> FALSE]

\* add_texts: metadatas is None ([none |-> TRUE]) or a list; ids are generated
\* in batch order.
AddTexts(new_texts, new_embeddings, metadatas, http) ==
    LET start_index == Len(texts)
        n == Len(new_texts)
        metas == IF metadatas.none
                 THEN [i \in 1..n |-> EmptyDict]
                 ELSE metadatas.list
        use_remote == UseRemote
        \* zip(texts, embeddings) stops at the shorter list
        pairs == Min(n, Len(new_embeddings))
        ids == [i \in 1..pairs |-> GenerateId(new_texts[i], id_counter + i - 1)]
        batch_map == [id \in {ids[i] : i \in 1..pairs} |->
                         start_index +
                         (CHOOSE i \in 1..pairs :
                             ids[i] = id /\ \A j \in 1..pairs : ids[j] = id => j <= i)
                         - 1]
    IN  [texts |-> texts \o new_texts,
         embeddings |-> embeddings \o new_embeddings,
         metadata |-> metadata \o metas,
         id_counter |-> IF use_remote THEN id_counter + pairs ELSE id_counter,
         id_to_index |-> IF use_remote THEN batch_map @@ id_to_index ELSE id_to_index,
         endee_available |-> endee_available,
         sent |-> IF use_remote
                  THEN [i \in 1..pairs |-> [id |-> ids[i], vector |-> new_embeddings[i]]]
                  ELSE <<>>,
         contacted |-> use_remote,
         failed |-> use_remote /\ ~EndeeInsertVectors(http),
         raised |-> FALSE]

\* The loop of search over endee_results[:top_k]: an id without a mapping is
\* skipped; a mapped index outside the lists raises IndexError.
RECURSIVE Hydrate(_)
Hydrate(items) ==
    IF items = <<>> THEN [error |-> FALSE, results |-> <<>>]
    ELSE LET item == Head(items)
         IN  IF item.id \in DOMAIN id_to_index
             THEN LET idx == id_to_index[item.id]
                  IN  IF idx >= Len(texts) \/ idx >= Len(metadata)
                      THEN [error |-> TRUE, results |-> <<>>]
                      ELSE LET rest == Hydrate(Tail(items))
                           IN  IF rest.error THEN rest
                               ELSE [error |-> FALSE,
                                     results |-> <<<<texts[idx + 1], item.score,
                                                     metadata[idx + 1]>>>>
                                                 \o rest.results]
             ELSE Hydrate(Tail(items))

\* Faulty variant of Search: when the remote yields nothing usable the call answers
\* the empty list instead of searching the local lists.
SearchNoFallback(q, k, http) ==
    IF Len(texts) = 0
    THEN [result |-> <<>>, path |-> "empty", contacted |-> FALSE,
          failed |-> FALSE, endee_available |-> endee_available,
          raised |-> FALSE]
    ELSE IF UseRemote
    THEN LET endee_results == EndeeSearch(http, RemoteSearchBody(remote, q, k))
             hyd == IF endee_results.ok /\ Len(endee_results.items) > 0
                    THEN Hydrate(Take(endee_results.items, k))
                    ELSE [error |-> FALSE, results |-> <<>>]
         IN  [result |-> IF hyd.error THEN <<>> ELSE hyd.results,
              path |-> "endee", contacted |-> TRUE, failed |-> ~endee_results.ok,
              endee_available |-> endee_available, raised |-> FALSE]
    ELSE [result |-> SearchInMemory(q, k), path |-> "memory", contacted |-> FALSE,
          failed |-> FALSE, endee_available |-> endee_available,
          raised |-> FALSE]

\* Faulty variant of Search: the check for an empty store is missing, so the
\* call goes on to the remote and to _cosine_similarity, whose norm over an
\* empty array raises.
SearchNoEmptyCheck(q, k, http) ==
    LET endee_results == EndeeSearch(http, RemoteSearchBody(remote, q, k))
        hyd == IF endee_results.ok /\ Len(endee_results.items) > 0
               THEN Hydrate(Take(endee_results.items, k))
               ELSE [error |-> FALSE, results |-> <<>>]
    IN  IF UseRemote /\ ~hyd.error /\ hyd.results # <<>>
        THEN [result |-> hyd.results, path |-> "endee", contacted |-> TRUE,
              failed |-> FALSE, endee_available |-> endee_available,
              raised |-> FALSE]
        ELSE [result |-> SearchInMemory(q, k), path |-> "memory",
              contacted |-> UseRemote, failed |-> UseRemote /\ ~endee_results.ok,
              endee_available |-> endee_available,
              raised |-> Len(embeddings) = 0]

\* Faulty variant of Search: a failure of the remote search is passed on to the
\* caller instead of being answered from the local lists.
SearchRaisesOnFailure(q, k, http) ==
    IF Len(texts) = 0
    THEN [result |-> <<>>, path |-> "empty", contacted |-> FALSE,
          failed |-> FALSE, endee_available |-> endee_available,
          raised |-> FALSE]
    ELSE IF UseRemote
    THEN LET endee_results == EndeeSearch(http, RemoteSearchBody(remote, q, k))
             hyd == IF endee_results.ok /\ Len(endee_results.items) > 0
                    THEN Hydrate(Take(endee_results.items, k))
                    ELSE [error |-> FALSE, results |-> <<>>]
         IN  IF ~hyd.error /\ hyd.results # <<>>
             THEN [result |-> hyd.results, path |-> "endee", contacted |-> TRUE,
                   failed |-> FALSE, endee_available |-> endee_available,
                   raised |-> FALSE]
             ELSE IF ~endee_results.ok \/ hyd.error
             THEN [result |-> <<>>, path |-> "none", contacted |-> TRUE,
                   failed |-> ~endee_results.ok,
                   endee_available |-> endee_available, raised |-> TRUE]
             ELSE [result |-> SearchInMemory(q, k), path |-> "memory",
                   contacted |-> TRUE, failed |-> FALSE,
                   endee_available |-> endee_available, raised |-> FALSE]
    ELSE [result |-> SearchInMemory(q, k), path |-> "memory", contacted |-> FALSE,
          failed |-> FALSE, endee_available |-> endee_available,
          raised |-> FALSE]

\* search: path tells which return statement produced the result, failed
\* whether the client answered None.
Search(q, k, http) ==
    IF Len(texts) = 0
    THEN [result |-> <<>>, path |-> "empty", contacted |-> FALSE,
          failed |-> FALSE, endee_available |-> endee_available,
          raised |-> FALSE]
    ELSE IF UseRemote
    THEN LET endee_results == EndeeSearch(http, RemoteSearchBody(remote, q, k))
             hyd == IF endee_results.ok /\ Len(endee_results.items) > 0
                    THEN Hydrate(Take(endee_results.items, k))
                    ELSE [error |-> FALSE, results |-> <<>>]
         IN  IF ~hyd.error /\ hyd.results # <<>>
             THEN [result |-> hyd.results, path |-> "endee", contacted |-> TRUE,
                   failed |-> FALSE, endee_available |-> endee_available,
                   raised |-> FALSE]
             ELSE [result |-> SearchInMemory(q, k), path |-> "memory",
                   contacted |-> TRUE, failed |-> ~endee_results.ok,
                   endee_available |-> endee_available, raised |-> FALSE]
    ELSE [result |-> SearchInMemory(q, k), path |-> "memory", contacted |-> FALSE,
          failed |-> FALSE, endee_available |-> endee_available,
          raised |-> FALSE]

\* EndeeClient.get_stats: the parsed body for a 200, None for another status
\* or any exception (a body that is not JSON included).  truthy: the value
\* passes "if stats:".
EndeeGetStats(http) ==
    [ok |-> http \in {"200", "200_empty"}, truthy |-> http = "200"]

\* get_backend_info: the dict it returns; endee_stats tells whether the key
\* is present.
GetBackendInfo(http) ==
    LET stats == EndeeGetStats(http)
    IN  [backend |-> IF endee_available THEN "endee" ELSE "numpy",
         connected |-> endee_available,
         document_count |-> Len(texts),
         persistent |-> endee_available,
         endee_stats |-> UseRemote /\ stats.truthy,
         failed |-> UseRemote /\ ~stats.ok,
         raised |-> FALSE]

\* clear: id_to_index and the server's index are left as they are.
Clear ==
    [texts |-> <<>>, embeddings |-> <<>>, metadata |-> <<>>, id_counter |-> 0,
     id_to_index |-> id_to_index]

(***************************************************************************)
(* The store as a state machine: one action per public method.             *)
(***************************************************************************)
\* No call of split_text_into_chunks is running.
NoChunker == [pc |-> "idle", text |-> <<>>, chunk_size |-> 0, overlap |-> 0,
              start |-> 0, chunks |-> <<>>, starts |-> <<>>]

IdleAdder == [pc |-> "idle", op |-> "none", docs |-> <<>>, http |-> "none",
              start_index |-> 0, ids |-> <<>>, unique_str |-> "", loaded |-> 0]

IdleSearcher == [pc |-> "idle", q |-> <<>>, k |-> 0, http |-> "none",
                 items |-> <<>>, idx |-> 0, text |-> "", top |-> <<>>,
                 sims |-> <<>>, result |-> <<>>, error |-> "none"]

NoThreads == [adder |-> IdleAdder, searcher |-> IdleSearcher]

\* Arguments and answer of a Retriever call, when the last call was none.
NoArgs == [query |-> "", use_llm |-> "None", llm_up |-> FALSE, embed |-> "none"]

NoResponse == [kind |-> "none", prompt |-> "", listing |-> <<>>,
               generate_calls |-> 0]

NoCall == [op |-> "none", connected |-> FALSE, contacted |-> FALSE,
           failed |-> FALSE, q |-> <<>>, k |-> 0, result |-> <<>>,
           path |-> "none", n |-> 0, count_before |-> 0, raised |-> FALSE,
           create |-> "not_called", mismatch |-> FALSE, zero |-> FALSE,
           args |-> NoArgs, response |-> NoResponse]

EmptyMap == [id \in {} |-> 0]

\* A store used without a Retriever around it.
NoRetriever == [use_llm |-> FALSE, llm |-> FALSE]

\* VectorStore.__init__: the state a constructor call leaves, for every
\* answer the remote can give to it.
InitStore ==
    \E use_endee \in BOOLEAN :
    \E ctor \in IF use_endee THEN {"ok", "exception"} ELSE {"not_called"} :
    \E health \in IF ctor = "ok" THEN HttpOutcomes ELSE {"not_called"} :
    \E create \in IF health = "200" THEN HttpOutcomes ELSE {"not_called"} :
        LET c == TryConnectEndee(use_endee, ctor, health, create)
        IN  /\ endee_available = c.endee_available
            /\ endee_client = c.endee_client
            /\ built = [use_endee |-> use_endee, ctor |-> ctor, health |-> health]
            /\ texts = <<>>
            /\ embeddings = <<>>
            /\ metadata = <<>>
            /\ id_counter = 0
            /\ id_to_index = EmptyMap
            /\ remote = {[id |-> StaleId, vector |-> <<-1, 0>>]}
            /\ id_record = EmptyMap
            /\ inserted = <<>>
            /\ last = [NoCall EXCEPT !.op = "__init__", !.create = create]
            /\ chunker = NoChunker
            /\ thread = NoThreads

\* A VectorStore constructed on its own.
Init == InitStore /\ retriever = NoRetriever

\* The dict a document is expected to be stored with (None is stored as {}).
StoredMetadata(doc) ==
    IF doc.metadata = NoneValue THEN EmptyDict ELSE doc.metadata

Apply(r) ==
    /\ texts' = r.texts
    /\ embeddings' = r.embeddings
    /\ metadata' = r.metadata
    /\ id_counter' = r.id_counter
    /\ id_to_index' = r.id_to_index

add_text ==
    \E doc \in Documents, http \in HttpOutcomes :
        LET text == doc.text
        IN  \E r \in {AddText(text, doc.embedding, doc.metadata, http)} :
            /\ Len(texts) < MaxDocs
            /\ Apply(r)
            /\ endee_available' = r.endee_available
            /\ remote' = IF r.contacted /\ http = "200"
                         THEN RemoteUpsert(remote, r.sent) ELSE remote
            /\ id_record' = [i \in {r.sent[n].id : n \in 1..Len(r.sent)} |->
                                 <<text, StoredMetadata(doc)>>] @@ id_record
            /\ inserted' = Append(inserted, text)
            /\ last' = [NoCall EXCEPT !.op = "add_text",
                            !.connected = endee_available,
                            !.contacted = r.contacted,
                            !.failed = r.failed,
                            !.n = 1, !.count_before = Len(texts),
                            !.raised = r.raised]
            /\ UNCHANGED <<endee_client, built, chunker, thread, retriever>>

Batches(S) == UNION {[1..n -> S] : n \in 1..MaxBatch}

add_texts ==
    \E docs \in Batches(Documents), http \in HttpOutcomes :
        LET none == \A i \in 1..Len(docs) : docs[i].metadata = NoneValue
            new_texts == [i \in 1..Len(docs) |-> docs[i].text]
            new_embeddings == [i \in 1..Len(docs) |-> docs[i].embedding]
            metadatas == IF none
                         THEN [none |-> TRUE, list |-> <<>>]
                         ELSE [none |-> FALSE,
                               list |-> [i \in 1..Len(docs) |->
                                           StoredMetadata(docs[i])]]
        IN  \E r \in {AddTexts(new_texts, new_embeddings, metadatas, http)} :
            /\ Len(texts) + Len(new_texts) <= MaxDocs
            /\ Apply(r)
            /\ endee_available' = r.endee_available
            /\ remote' = IF r.contacted /\ http = "200"
                         THEN RemoteUpsert(remote, r.sent) ELSE remote
            /\ id_record' = [i \in {r.sent[n].id : n \in 1..Len(r.sent)} |->
                                 LET n == CHOOSE n \in 1..Len(r.sent) : r.sent[n].id = i
                                 IN  <<new_texts[n], StoredMetadata(docs[n])>>]
                             @@ id_record
            /\ inserted' = inserted \o new_texts
            /\ last' = [NoCall EXCEPT !.op = "add_texts",
                            !.connected = endee_available,
                            !.contacted = r.contacted,
                            !.failed = r.failed,
                            !.n = Len(new_texts), !.count_before = Len(texts),
                            !.raised = r.raised]
            /\ UNCHANGED <<endee_client, built, chunker, thread, retriever>>

search ==
    \E q \in Queries, k \in TopKs, http \in SearchOutcomes :
        \E r \in {Search(q, k, http)} :
            /\ endee_available' = r.endee_available
            /\ last' = [NoCall EXCEPT !.op = "search",
                            !.connected = endee_available,
                            !.contacted = r.contacted,
                            !.failed = r.failed,
                            !.q = q, !.k = k, !.result = r.result,
                            !.path = r.path, !.count_before = Len(texts),
                            !.raised = r.raised]
            /\ UNCHANGED <<endee_client, texts, embeddings, metadata, id_counter,
                           id_to_index, remote, built, id_record,
                           inserted, chunker, thread, retriever>>

clear ==
    /\ Apply(Clear)
    /\ inserted' = <<>>
    /\ last' = [NoCall EXCEPT !.op = "clear", !.connected = endee_available,
                    !.count_before = Len(texts)]
    /\ UNCHANGED <<endee_available, endee_client, remote, built, id_record,
                   chunker, thread, retriever>>

Next == add_text \/ add_texts \/ search \/ clear

Spec == Init /\ [][Next]_vars

(***************************************************************************)
(* The store with its status call.                                         *)
(***************************************************************************)
StatsOutcomes == {"200", "200_empty", "200_not_json", "500", "exception"}

get_backend_info ==
    \E http \in StatsOutcomes :
        \E r \in {GetBackendInfo(http)} :
            /\ last' = [NoCall EXCEPT !.op = "get_backend_info",
                            !.connected = endee_available,
                            !.failed = r.failed,
                            !.result = <<r.backend, r.document_count, r.endee_stats>>,
                            !.count_before = Len(texts),
                            !.raised = r.raised]
            /\ UNCHANGED <<endee_available, endee_client, texts, embeddings,
                           metadata, id_counter, id_to_index, remote, built,
                           id_record, inserted, chunker, thread, retriever>>

NextBackend == Next \/ get_backend_info

SpecBackend == Init /\ [][NextBackend]_vars

(***************************************************************************)
(* Inserts of vectors whose length is not the store's dimension.           *)
(***************************************************************************)
\* self.dimension; the embeddings of Documents have this length
Dimension == 2

MismatchedDocuments ==
    {[text |-> "c", embedding |-> <<1>>, metadata |-> "None"],
     [text |-> "d", embedding |-> <<1, 0, 0>>, metadata |-> "{source}"]}

HasMismatch(docs) == \E i \in 1..Len(docs) : Len(docs[i].embedding) # Dimension

\* add_text with an embedding of another length: the method compares nothing
\* with self.dimension and runs as for any other embedding.
add_text_mismatched ==
    \E doc \in MismatchedDocuments, http \in HttpOutcomes :
        \E r \in {AddText(doc.text, doc.embedding, doc.metadata, http)} :
            /\ Len(texts) < MaxDocs
            /\ Apply(r)
            /\ endee_available' = r.endee_available
            /\ remote' = IF r.contacted /\ http = "200"
                         THEN RemoteUpsert(remote, r.sent) ELSE remote
            /\ id_record' = [i \in {r.sent[n].id : n \in 1..Len(r.sent)} |->
                                 <<doc.text, StoredMetadata(doc)>>] @@ id_record
            /\ inserted' = Append(inserted, doc.text)
            /\ last' = [NoCall EXCEPT !.op = "add_text",
                            !.connected = endee_available,
                            !.contacted = r.contacted,
                            !.failed = r.failed,
                            !.n = 1, !.count_before = Len(texts),
                            !.raised = r.raised, !.mismatch = TRUE]
            /\ UNCHANGED <<endee_client, built, chunker, thread, retriever>>

\* add_texts with at least one embedding of another length
add_texts_mismatched ==
    \E docs \in Batches(Documents \cup MismatchedDocuments), http \in HttpOutcomes :
        LET new_texts == [i \in 1..Len(docs) |-> docs[i].text]
            new_embeddings == [i \in 1..Len(docs) |-> docs[i].embedding]
            metadatas == [none |-> FALSE,
                          list |-> [i \in 1..Len(docs) |-> StoredMetadata(docs[i])]]
        IN  \E r \in {AddTexts(new_texts, new_embeddings, metadatas, http)} :
            /\ HasMismatch(docs)
            /\ Len(texts) + Len(new_texts) <= MaxDocs
            /\ Apply(r)
            /\ endee_available' = r.endee_available
            /\ remote' = IF r.contacted /\ http = "200"
                         THEN RemoteUpsert(remote, r.sent) ELSE remote
            /\ id_record' = [i \in {r.sent[n].id : n \in 1..Len(r.sent)} |->
                                 LET n == CHOOSE n \in 1..Len(r.sent) : r.sent[n].id = i
                                 IN  <<new_texts[n], StoredMetadata(docs[n])>>]
                             @@ id_record
            /\ inserted' = inserted \o new_texts
            /\ last' = [NoCall EXCEPT !.op = "add_texts",
                            !.connected = endee_available,
                            !.contacted = r.contacted,
                            !.failed = r.failed,
                            !.n = Len(new_texts), !.count_before = Len(texts),
                            !.raised = r.raised, !.mismatch = TRUE]
            /\ UNCHANGED <<endee_client, built, chunker, thread, retriever>>

NextDimension == add_text \/ add_text_mismatched \/ add_texts_mismatched

SpecDimension == Init /\ [][NextDimension]_vars

\* C12: an add_text or add_texts call given a vector whose length is not the
\* store's dimension raises a configuration error and changes nothing: the
\* texts, embeddings, metadata, id map and remote index are as before and no
\* request is sent.
C12_MismatchRejected ==
    [][last'.mismatch =>
          /\ last'.raised
          /\ ~last'.contacted
          /\ texts' = texts /\ embeddings' = embeddings /\ metadata' = metadata
          /\ id_to_index' = id_to_index /\ remote' = remote]_vars

(***************************************************************************)
(* Properties of the vector store (checked under Spec).                    *)
(***************************************************************************)
IsAdd(call) == call.op \in {"add_text", "add_texts"}

\* C1: a remote failure in add_text, add_texts or search of a Connected store
\* leaves endee_available false, it stays false, and no later call contacts
\* the remote.
C1_DegradeOnFailure ==
    [][/\ (last'.failed /\ last' # last) => ~endee_available'
       /\ (~endee_available /\ last.op # "__init__")
              => (~endee_available' /\ ~last'.contacted)]_vars

\* C2: add_text and add_texts return normally whatever the remote answers,
\* count() grows by the number of texts passed, and the stored texts are the
\* inserted texts in call order since the last clear.
C2_LocalWriteUnconditional ==
    /\ texts = inserted
    /\ IsAdd(last) => /\ ~last.raised
                      /\ Len(texts) = last.count_before + last.n

C2_Witness ==
    /\ last.op = "add_text" /\ last.failed
    /\ last.count_before = 1 /\ Len(texts) = 2
    /\ texts[1] # texts[2]

\* The ids the server would answer for the last search.
RemoteIdsFor(call) ==
    LET body == RemoteSearchBody(remote, call.q, call.k)
    IN  {body[i].id : i \in 1..Len(body)}

\* C3: on a Connected, non-empty store, when the remote search fails or
\* answers no id that has a local mapping, search returns what the in-memory
\* search returns for the same query and top_k, and raises nothing.
C3_TransparentFallback ==
    (/\ last.op = "search" /\ last.connected /\ Len(texts) > 0
     /\ (last.failed \/ RemoteIdsFor(last) \cap DOMAIN id_to_index = {}))
    => /\ last.result = SearchInMemory(last.q, last.k)
       /\ ~last.raised

C3_Witness ==
    /\ last.op = "search" /\ last.connected /\ last.failed
    /\ Len(texts) = 2 /\ Len(last.result) = 2
    /\ remote # {}

\* C15: search on a store that holds no record, never filled or emptied by
\* clear, returns the empty list and raises nothing, Connected or not.
C15_EmptyStoreSearch ==
    (last.op = "search" /\ Len(texts) = 0)
        => (last.result = <<>> /\ ~last.raised)

C15_Witness ==
    /\ last.op = "search" /\ Len(texts) = 0 /\ last.result = <<>>
    /\ last.connected
    /\ \E v \in remote : v.id # StaleId

\* C16: no failure of the remote service reaches the caller: construction,
\* add_text, add_texts, search and get_backend_info all return, and a failed
\* health check leaves the store Unavailable (health_check answered False).
C16_FailuresAbsorbed ==
    /\ ~last.raised
    /\ (built.use_endee /\ built.health \in {"500", "exception"})
           => ~endee_available
    /\ (last.op = "search" /\ last.failed) => last.path = "memory"

C16_Witness ==
    /\ last.op = "search" /\ last.failed /\ ~last.raised
    /\ last.path = "memory" /\ last.result # <<>>
    /\ built.health = "200"

\* Position i is among the top_k of the local store for q: fewer than k other
\* records are at least as similar to q.
InLocalTopK(i, q, k) ==
    Cardinality({j \in (1..Len(texts)) \ {i} :
                    ~SimLess(CosineSimilarity(q, embeddings[j]),
                             CosineSimilarity(q, embeddings[i]))}) < k

Returns(result, i) ==
    \E n \in 1..Len(result) :
        result[n][1] = texts[i] /\ result[n][3] = metadata[i]

\* C4: in every backend state, search returns every record that belongs to
\* the top_k of the local store for the query.
C4_ReadYourWrites ==
    last.op = "search" =>
        \A i \in 1..Len(texts) :
            InLocalTopK(i, last.q, last.k) => Returns(last.result, i)

\* The remote was unreachable when the store was constructed.
UnreachableAtConstruction ==
    built.use_endee /\ (built.ctor = "exception" \/ built.health # "200")

\* result is a top-k answer of the local store for q: min(k, n) distinct
\* records with their similarities, none left out that is more similar.
IsLocalTopK(result, q, k) ==
    /\ Len(result) = Min(k, Len(texts))
    /\ \E pos \in [1..Len(result) -> 1..Len(texts)] :
          /\ \A m, n \in 1..Len(result) : m # n => pos[m] # pos[n]
          /\ \A n \in 1..Len(result) :
                /\ result[n] = <<texts[pos[n]],
                                 CosineSimilarity(q, embeddings[pos[n]]),
                                 metadata[pos[n]]>>
                /\ \A o \in (1..Len(texts)) \ {pos[m] : m \in 1..Len(result)} :
                      ~SimLess(result[n][2], CosineSimilarity(q, embeddings[o]))

\* C5: a store whose remote was unreachable at construction is Unavailable
\* and stays so, never contacts the remote, accepts every insert, and search
\* returns the top_k records of the local store.
C5_UnreachableAtConstruction ==
    UnreachableAtConstruction =>
        /\ ~endee_available
        /\ ~last.contacted
        /\ IsAdd(last) => (~last.raised /\ Len(texts) = last.count_before + last.n)
        /\ last.op = "search" => IsLocalTopK(last.result, last.q, last.k)

C5_Witness ==
    /\ UnreachableAtConstruction /\ built.ctor = "ok"
    /\ last.op = "search" /\ last.k = 1 /\ Len(texts) = 2 /\ Len(last.result) = 1

\* C6: after construction with use_endee true the store is Connected if and
\* only if the client was constructed and health_check and create_index both
\* succeeded; any failure leaves it Unavailable.
C6_ConnectedIffBothSucceed ==
    (last.op = "__init__" /\ built.use_endee) =>
        (endee_available <=>
            (built.ctor = "ok" /\ built.health = "200" /\ last.create = "200"))

\* C7: after a search of a Connected, non-empty store on which the remote
\* failed, the next search for the same query returns a non-empty result
\* from the in-memory path, without consulting the remote.
C7_NextSearchUsesFallback ==
    [][(/\ last.op = "search" /\ last.failed /\ Len(texts) > 0
        /\ last'.op = "search" /\ last'.q = last.q)
       => (/\ last'.result # <<>>
           /\ last'.path = "memory"
           /\ ~last'.contacted)]_vars

\* C9: every id in the id map resolves to a valid local position that holds
\* the text and metadata inserted with that id.
C9_IdsResolve ==
    \A id \in DOMAIN id_to_index :
        /\ id_to_index[id] < Len(texts)
        /\ <<texts[id_to_index[id] + 1], metadata[id_to_index[id] + 1]>>
               = id_record[id]

(***************************************************************************)
(* split_text_into_chunks (main.py).  A text is a sequence of characters;  *)
(* Python offsets are 0-based.                                             *)
(***************************************************************************)
Alphabet == {"x", ".", " "}
Whitespace == {" "}

\* a slice bound i on a sequence of length n: a negative bound counts from
\* the end, and the bound is clamped to 0..n
PyIndex(i, n) ==
    LET j == IF i < 0 THEN i + n ELSE i
    IN  IF j < 0 THEN 0 ELSE Min(j, n)

\* text[a:b]
Slice(t, a, b) == SubSeq(t, PyIndex(a, Len(t)) + 1, PyIndex(b, Len(t)))

\* chunk.rfind('.'): the last offset of a '.', or -1
RFind(chunk) ==
    LET hits == {i \in 1..Len(chunk) : chunk[i] = "."}
    IN  IF hits = {} THEN -1
        ELSE (CHOOSE i \in hits : \A j \in hits : j <= i) - 1

\* chunk.strip()
Strip(chunk) ==
    LET solid == {i \in 1..Len(chunk) : chunk[i] \notin Whitespace}
    IN  IF solid = {} THEN <<>>
        ELSE SubSeq(chunk,
                    CHOOSE i \in solid : \A j \in solid : i <= j,
                    CHOOSE i \in solid : \A j \in solid : j <= i)

\* end of the window that starts at start: start + chunk_size, shortened to
\* just after the last '.' of the window when the window stops before the end
\* of the text and that '.' lies beyond chunk_size // 2.
WindowEnd(t, start, chunk_size) ==
    LET end == start + chunk_size
        last_period == RFind(Slice(t, start, end))
    IN  IF end < Len(t) /\ last_period > chunk_size \div 2
        THEN start + last_period + 1
        ELSE end

\* Faulty variant of NextStart: the overlap is added instead of subtracted,
\* so the next window starts beyond the end of this one.
NextStartBeyond(end, overlap) ==
    IF end + overlap <= 0 THEN end ELSE end + overlap

\* start of the next window: end - overlap, or end when that is <= 0
NextStart(end, overlap) ==
    IF end - overlap <= 0 THEN end ELSE end - overlap

\* One iteration of the while loop.
LoopBody(c) ==
    LET end == WindowEnd(c.text, c.start, c.chunk_size)
    IN  [c EXCEPT !.chunks = Append(c.chunks, Strip(Slice(c.text, c.start, end))),
                  !.starts = Append(c.starts, c.start),
                  !.start = NextStart(end, c.overlap)]

TextsUpTo(n) == UNION {[1..m -> Alphabet] : m \in 0..n}

StoreIdle ==
    /\ endee_available = FALSE
    /\ endee_client = FALSE
    /\ built = [use_endee |-> FALSE, ctor |-> "not_called", health |-> "not_called"]
    /\ texts = <<>>
    /\ embeddings = <<>>
    /\ metadata = <<>>
    /\ id_counter = 0
    /\ id_to_index = EmptyMap
    /\ remote = {[id |-> StaleId, vector |-> <<-1, 0>>]}
    /\ id_record = EmptyMap
    /\ inserted = <<>>
    /\ last = [NoCall EXCEPT !.op = "__init__"]
    /\ thread = NoThreads
    /\ retriever = NoRetriever

store_vars == <<endee_available, endee_client, texts, embeddings, metadata,
                id_counter, id_to_index, remote, built, id_record, inserted, last,
                thread, retriever>>

\* A call split_text_into_chunks(text, chunk_size, overlap) with
\* 0 <= overlap < chunk_size has just set chunks = [] and start = 0.
InitChunker ==
    /\ StoreIdle
    /\ \E t \in TextsUpTo(MaxTextLen), chunk_size \in 1..MaxChunkSize :
       \E overlap \in 0..(chunk_size - 1) :
           chunker = [pc |-> "loop", text |-> t, chunk_size |-> chunk_size,
                      overlap |-> overlap, start |-> 0, chunks |-> <<>>,
                      starts |-> <<>>]

\* while start < text_length: one more window.  A run of the code has no
\* bound on its iterations; the model follows it for Len(text) + 1 of them,
\* one more than a loop that always advances can make.
chunk_window ==
    /\ chunker.pc = "loop"
    /\ chunker.start < Len(chunker.text)
    /\ Len(chunker.chunks) <= Len(chunker.text)
    /\ chunker' = LoopBody(chunker)
    /\ UNCHANGED store_vars

\* the loop condition fails: return chunks
chunk_return ==
    /\ chunker.pc = "loop"
    /\ chunker.start >= Len(chunker.text)
    /\ chunker' = [chunker EXCEPT !.pc = "done"]
    /\ UNCHANGED store_vars

NextChunker == chunk_window \/ chunk_return

SpecChunker == InitChunker /\ [][NextChunker]_vars

\* C10: split_text_into_chunks terminates for 0 <= overlap < chunk_size: each
\* window starts strictly after the previous one (so the loop makes at most
\* len(text) iterations).
C10_ChunkerProgress ==
    /\ \A i \in 1..Len(chunker.starts) :
          /\ i > 1 => chunker.starts[i - 1] < chunker.starts[i]
          /\ i = Len(chunker.starts) /\ chunker.pc = "loop"
                => chunker.starts[i] < chunker.start
    /\ Len(chunker.chunks) <= Len(chunker.text)

\* C11: a text shorter than chunk_size comes back as exactly one chunk, the
\* text with its leading and trailing whitespace trimmed.
C11_ShortTextOneChunk ==
    (chunker.pc = "done" /\ Len(chunker.text) < chunker.chunk_size)
        => chunker.chunks = <<Strip(chunker.text)>>

\* C20: every chunk returned is non-empty and neither starts nor ends with
\* whitespace.
C20_ChunksNonEmptyTrimmed ==
    chunker.pc = "done" =>
        \A i \in 1..Len(chunker.chunks) :
            LET chunk == chunker.chunks[i]
            IN  /\ chunk # <<>>
                /\ chunk[1] \notin Whitespace
                /\ chunk[Len(chunk)] \notin Whitespace

\* A call split_text_into_chunks(text, chunk_size, overlap) whose arguments
\* break 0 <= overlap < chunk_size: the function has no check of them and
\* enters the loop like any other call.
InitChunkerBadArgs ==
    /\ StoreIdle
    /\ \E t \in TextsUpTo(MaxTextLen), chunk_size \in (-1)..MaxChunkSize :
       \E overlap \in 0..MaxChunkSize :
           /\ chunk_size <= 0 \/ overlap >= chunk_size
           /\ chunker = [pc |-> "loop", text |-> t, chunk_size |-> chunk_size,
                         overlap |-> overlap, start |-> 0, chunks |-> <<>>,
                         starts |-> <<>>]

SpecChunkerBadArgs == InitChunkerBadArgs /\ [][NextChunker]_vars

\* C19: a call with overlap >= chunk_size or chunk_size <= 0 is rejected
\* before any chunk is produced: it neither appends a chunk nor returns.
C19_BadArgsRejected ==
    (chunker.chunk_size <= 0 \/ chunker.overlap >= chunker.chunk_size)
        => (chunker.chunks = <<>> /\ chunker.pc # "done")

(***************************************************************************)
(* Two threads on one VectorStore.  The methods take no lock, so a thread  *)
(* switch can fall between any two statements; each list operation is one *)
(* step (atomic under the interpreter lock).                               *)
(***************************************************************************)
other_vars == <<endee_available, endee_client, built, last, chunker, retriever>>

TextsOf(docs) == [i \in 1..Len(docs) |-> docs[i].text]

\* add_text line 88 / add_texts lines 115-119: the call is entered and reads
\* len(self.texts)
a_call ==
    /\ thread.adder.pc = "idle"
    /\ \E op \in {"add_text", "add_texts"}, docs \in Batches(Documents),
          http \in HttpOutcomes :
          /\ op = "add_text" => Len(docs) = 1
          /\ Len(inserted) + Len(docs) <= MaxDocs
          /\ thread' = [thread EXCEPT !.adder =
                           [IdleAdder EXCEPT
                               !.pc = "texts", !.op = op, !.docs = docs,
                               !.http = http, !.start_index = Len(texts)]]
          /\ inserted' = inserted \o TextsOf(docs)
    /\ UNCHANGED <<texts, embeddings, metadata, id_counter, id_to_index, remote,
                   id_record, other_vars>>

\* self.texts.append(text) / self.texts.extend(texts)
a_texts ==
    /\ thread.adder.pc = "texts"
    /\ texts' = texts \o TextsOf(thread.adder.docs)
    /\ thread' = [thread EXCEPT !.adder.pc = "embeddings"]
    /\ UNCHANGED <<embeddings, metadata, id_counter, id_to_index, remote,
                   id_record, inserted, other_vars>>

\* self.embeddings.append(embedding) / self.embeddings.extend(embeddings)
a_embeddings ==
    /\ thread.adder.pc = "embeddings"
    /\ embeddings' = embeddings \o
           [i \in 1..Len(thread.adder.docs) |-> thread.adder.docs[i].embedding]
    /\ thread' = [thread EXCEPT !.adder.pc = "metadata"]
    /\ UNCHANGED <<texts, metadata, id_counter, id_to_index, remote,
                   id_record, inserted, other_vars>>

\* self.metadata.append(...) / self.metadata.extend(metadatas)
a_metadata ==
    /\ thread.adder.pc = "metadata"
    /\ metadata' = metadata \o
           [i \in 1..Len(thread.adder.docs) |-> StoredMetadata(thread.adder.docs[i])]
    /\ thread' = [thread EXCEPT !.adder.pc = "remote"]
    /\ UNCHANGED <<texts, embeddings, id_counter, id_to_index, remote,
                   id_record, inserted, other_vars>>

\* lines 94 / 127: the test of the remote branch; without it the call returns
a_remote ==
    /\ thread.adder.pc = "remote"
    /\ thread' = [thread EXCEPT !.adder =
                     IF UseRemote THEN [@ EXCEPT !.pc = "id"] ELSE IdleAdder]
    /\ UNCHANGED <<texts, embeddings, metadata, id_counter, id_to_index, remote,
                   id_record, inserted, other_vars>>

\* _generate_id line 82, for the next text of the call:
\* unique_str = f"{text}_{self._id_counter}"
a_id ==
    /\ thread.adder.pc = "id"
    /\ LET me == thread.adder
       IN  thread' = [thread EXCEPT
                         !.adder.unique_str =
                             GenerateId(me.docs[Len(me.ids) + 1].text, id_counter),
                         !.adder.pc = "load"]
    /\ UNCHANGED <<texts, embeddings, metadata, id_counter, id_to_index, remote,
                   id_record, inserted, other_vars>>

\* line 83, self._id_counter += 1: the read
a_load ==
    /\ thread.adder.pc = "load"
    /\ thread' = [thread EXCEPT !.adder.loaded = id_counter,
                                !.adder.pc = "store"]
    /\ UNCHANGED <<texts, embeddings, metadata, id_counter, id_to_index, remote,
                   id_record, inserted, other_vars>>

\* line 83, self._id_counter += 1: the write; line 84 returns the id
a_store ==
    /\ thread.adder.pc = "store"
    /\ id_counter' = thread.adder.loaded + 1
    /\ thread' = [thread EXCEPT
                     !.adder.ids = Append(@, thread.adder.unique_str),
                     !.adder.pc = "map"]
    /\ UNCHANGED <<texts, embeddings, metadata, id_to_index, remote,
                   id_record, inserted, other_vars>>

\* line 104 / 140: self.id_to_index[vector_id] = text_index (start_index +
\* idx); add_texts then goes on with its next text
a_map ==
    /\ thread.adder.pc = "map"
    /\ LET me == thread.adder
           n == Len(me.ids)
       IN  /\ id_to_index' = (me.ids[n] :> (me.start_index + n - 1)) @@ id_to_index
           /\ id_record' = (me.ids[n] :>
                               <<me.docs[n].text, StoredMetadata(me.docs[n])>>)
                           @@ id_record
           /\ thread' = [thread EXCEPT !.adder.pc =
                            IF n < Len(me.docs) THEN "id" ELSE "insert"]
    /\ UNCHANGED <<texts, embeddings, metadata, id_counter, remote,
                   inserted, other_vars>>

\* line 107 / 143: insert_vectors with the batch, and the call returns
a_insert ==
    /\ thread.adder.pc = "insert"
    /\ LET me == thread.adder
       IN  remote' = IF EndeeInsertVectors(me.http)
                     THEN RemoteUpsert(remote,
                              [i \in 1..Len(me.docs) |->
                                  [id |-> me.ids[i], vector |-> me.docs[i].embedding]])
                     ELSE remote
    /\ thread' = [thread EXCEPT !.adder = IdleAdder]
    /\ UNCHANGED <<texts, embeddings, metadata, id_counter, id_to_index,
                   id_record, inserted, other_vars>>

\* search lines 159-161: the call is entered and tests len(self.texts) == 0
s_call ==
    /\ thread.searcher.pc = "idle"
    /\ \E q \in Queries, k \in TopKs, http \in SearchOutcomes :
          thread' = [thread EXCEPT !.searcher =
                        [IdleSearcher EXCEPT
                            !.q = q, !.k = k, !.http = http,
                            !.pc = IF Len(texts) = 0 THEN "return" ELSE "remote"]]
    /\ UNCHANGED <<texts, embeddings, metadata, id_counter, id_to_index, remote,
                   id_record, inserted, other_vars>>

store_lists == <<texts, embeddings, metadata, id_counter, id_to_index, remote,
                 id_record, inserted, other_vars>>

\* search lines 164-177: without the remote branch the search goes to the
\* lists; with it the request is sent and the client's answer is kept (None
\* and the empty list go on to the lists)
s_remote ==
    /\ thread.searcher.pc = "remote"
    /\ LET me == thread.searcher
           endee_results == EndeeSearch(me.http, RemoteSearchBody(remote, me.q, me.k))
       IN  IF UseRemote /\ endee_results.ok /\ Len(endee_results.items) > 0
           THEN thread' = [thread EXCEPT
                              !.searcher.items = Take(endee_results.items, me.k),
                              !.searcher.pc = "hydrate"]
           ELSE thread' = [thread EXCEPT !.searcher.pc = "similarity"]
    /\ UNCHANGED store_lists

\* lines 180-186: the loop over endee_results[:top_k] takes its next item
\* and looks its id up in self.id_to_index (an id without a mapping is
\* skipped); after the last item, "if results: return results"
s_hydrate ==
    /\ thread.searcher.pc = "hydrate"
    /\ LET me == thread.searcher
           item == Head(me.items)
       IN  IF me.items = <<>>
           THEN thread' = [thread EXCEPT !.searcher.pc =
                              IF me.result # <<>> THEN "return" ELSE "similarity"]
           ELSE IF item.id \notin DOMAIN id_to_index
           THEN thread' = [thread EXCEPT !.searcher.items = Tail(me.items)]
           ELSE thread' = [thread EXCEPT !.searcher.idx = id_to_index[item.id],
                                         !.searcher.pc = "text"]
    /\ UNCHANGED store_lists

\* line 187: text = self.texts[idx]; an IndexError is caught (line 193) and
\* the search goes on to the lists
s_text ==
    /\ thread.searcher.pc = "text"
    /\ LET me == thread.searcher
       IN  IF me.idx >= Len(texts)
           THEN thread' = [thread EXCEPT !.searcher.items = <<>>,
                                         !.searcher.result = <<>>,
                                         !.searcher.pc = "similarity"]
           ELSE thread' = [thread EXCEPT !.searcher.text = texts[me.idx + 1],
                                         !.searcher.pc = "metadata"]
    /\ UNCHANGED store_lists

\* lines 188-189: metadata = self.metadata[idx] (IndexError as above) and
\* results.append((text, score, metadata))
s_metadata ==
    /\ thread.searcher.pc = "metadata"
    /\ LET me == thread.searcher
       IN  IF me.idx >= Len(metadata)
           THEN thread' = [thread EXCEPT !.searcher.items = <<>>,
                                         !.searcher.result = <<>>,
                                         !.searcher.pc = "similarity"]
           ELSE thread' = [thread EXCEPT
                              !.searcher.items = Tail(me.items),
                              !.searcher.result =
                                  Append(me.result,
                                         <<me.text, Head(me.items).score,
                                           metadata[me.idx + 1]>>),
                              !.searcher.pc = "hydrate"]
    /\ UNCHANGED store_lists

\* _search_in_memory lines 201-209: np.array(self.embeddings), the
\* similarities and top_indices.  With no embeddings the array has one
\* dimension and norm(axis=1) raises AxisError (an IndexError).
s_similarity ==
    /\ thread.searcher.pc = "similarity"
    /\ IF Len(embeddings) = 0
       THEN thread' = [thread EXCEPT !.searcher.error = "AxisError",
                                     !.searcher.pc = "return"]
       ELSE thread' = [thread EXCEPT
                          !.searcher.sims = Similarities(embeddings, thread.searcher.q),
                          !.searcher.top = TopIndices(embeddings, thread.searcher.q,
                                                      thread.searcher.k),
                          !.searcher.pc = "collect"]
    /\ UNCHANGED store_lists

\* lines 213-218: one iteration of the loop over top_indices, reading
\* self.texts[idx] and self.metadata[idx]
s_collect ==
    /\ thread.searcher.pc = "collect"
    /\ LET me == thread.searcher
           idx == me.top[Len(me.result) + 1]
       IN  IF Len(me.result) = Len(me.top)
           THEN thread' = [thread EXCEPT !.searcher.pc = "return"]
           ELSE IF idx > Len(texts) \/ idx > Len(metadata)
           THEN thread' = [thread EXCEPT !.searcher.error = "IndexError",
                                         !.searcher.pc = "return"]
           ELSE thread' = [thread EXCEPT !.searcher.result =
                              Append(me.result,
                                     <<texts[idx], me.sims[idx], metadata[idx]>>)]
    /\ UNCHANGED store_lists

\* the call returns (or raises) to its caller
s_return ==
    /\ thread.searcher.pc = "return"
    /\ thread' = [thread EXCEPT !.searcher = IdleSearcher]
    /\ UNCHANGED store_lists

NextThreads ==
    \/ a_call \/ a_texts \/ a_embeddings \/ a_metadata \/ a_remote
    \/ a_id \/ a_load \/ a_store \/ a_map \/ a_insert
    \/ s_call \/ s_remote \/ s_hydrate \/ s_text \/ s_metadata
    \/ s_similarity \/ s_collect \/ s_return

SpecThreads == Init /\ [][NextThreads]_vars

\* C8: while one thread inserts and another searches, the search raises no
\* index error, never finds the three lists at different lengths, and every
\* tuple it returns has the text and metadata of one record.
C8_NoTornRead ==
    /\ thread.searcher.error = "none"
    /\ thread.searcher.pc \in {"similarity", "collect"}
          => (Len(texts) = Len(embeddings) /\ Len(texts) = Len(metadata))
    /\ \A n \in 1..Len(thread.searcher.result) :
          \E doc \in Documents :
              /\ thread.searcher.result[n][1] = doc.text
              /\ thread.searcher.result[n][3] = StoredMetadata(doc)


(***************************************************************************)
(* The in-memory search on its own: a store built with use_endee=False,    *)
(* filled by add_text and queried by search (which goes straight to        *)
(* _search_in_memory).                                                     *)
(***************************************************************************)
MaxLocalDocs == 3

\* A, B, C are the records of the ranking scenario (C stands for
\* [0.9, 0.1, 0], which has the same direction as [9, 1, 0]); D has the
\* direction of A, so the two tie for every query.
LocalDocuments ==
    {[text |-> "A", embedding |-> <<1, 0, 0>>, metadata |-> "None"],
     [text |-> "B", embedding |-> <<0, 1, 0>>, metadata |-> "None"],
     [text |-> "C", embedding |-> <<9, 1, 0>>, metadata |-> "{source}"],
     [text |-> "D", embedding |-> <<2, 0, 0>>, metadata |-> "None"]}

LocalQueries == {<<1, 0, 0>>, <<0, 1, 0>>, <<9, 1, 0>>}

InitLocal == StoreIdle /\ chunker = NoChunker

add_text_local ==
    \E doc \in LocalDocuments :
        \E r \in {AddText(doc.text, doc.embedding, doc.metadata, "none")} :
            /\ Len(texts) < MaxLocalDocs
            /\ Apply(r)
            /\ inserted' = Append(inserted, doc.text)
            /\ last' = [NoCall EXCEPT !.op = "add_text", !.n = 1,
                            !.count_before = Len(texts), !.raised = r.raised]
            /\ UNCHANGED <<endee_available, endee_client, remote, built,
                           id_record, chunker, thread, retriever>>

search_local ==
    \E q \in LocalQueries, k \in TopKs :
        \E r \in {Search(q, k, "none")} :
            /\ last' = [NoCall EXCEPT !.op = "search", !.q = q, !.k = k,
                            !.result = r.result, !.path = r.path,
                            !.count_before = Len(texts), !.raised = r.raised]
            /\ UNCHANGED <<endee_available, endee_client, texts, embeddings,
                           metadata, id_counter, id_to_index, remote, built,
                           id_record, inserted, chunker, thread, retriever>>

NextLocal == add_text_local \/ search_local

SpecLocal == InitLocal /\ [][NextLocal]_vars

TextsIn(result) == [n \in 1..Len(result) |-> result[n][1]]

\* C13: the local search returns min(top_k, n) records in non-increasing
\* order of similarity, leaves out no record more similar than a returned
\* one, puts a record queried with its own vector first when it is the
\* unique maximum, and answers [A, C] in the scenario A, B, C / [1,0,0] / 2.
C13_LocalTopK ==
    (last.op = "search" /\ last.path = "memory") =>
        /\ Len(last.result) = Min(last.k, Len(texts))
        /\ IsLocalTopK(last.result, last.q, last.k)
        /\ \A n \in 1..(Len(last.result) - 1) :
               ~SimLess(last.result[n][2], last.result[n + 1][2])
        /\ \A i \in 1..Len(texts) :
               (/\ embeddings[i] = last.q
                /\ \A j \in (1..Len(texts)) \ {i} :
                       SimLess(CosineSimilarity(last.q, embeddings[j]),
                               CosineSimilarity(last.q, embeddings[i])))
                   => last.result[1] = <<texts[i], <<1, 1>>, metadata[i]>>
        /\ (inserted = <<"A", "B", "C">> /\ last.q = <<1, 0, 0>> /\ last.k = 2)
               => TextsIn(last.result) = <<"A", "C">>

C13_Witness ==
    /\ last.op = "search" /\ last.path = "memory"
    /\ inserted = <<"A", "B", "C">> /\ last.q = <<1, 0, 0>> /\ last.k = 2
    /\ TextsIn(last.result) = <<"A", "C">>
    /\ SimLess(last.result[2][2], last.result[1][2])

\* The ranking the tie-break rule asks for: the larger similarity first and,
\* of two equal ones, the earlier position.
RECURSIVE EarliestFirst(_, _)
EarliestFirst(sims, left) ==
    IF left = {} THEN <<>>
    ELSE LET best == CHOOSE i \in left : \A j \in left \ {i} :
                        \/ SimLess(sims[j], sims[i])
                        \/ (~SimLess(sims[i], sims[j]) /\ i < j)
         IN  <<best>> \o EarliestFirst(sims, left \ {best})

\* C14: of two records with equal similarity the one inserted earlier is
\* ranked first, and it is the one kept when the tie straddles the cut.
C14_TieBreakEarliestFirst ==
    (last.op = "search" /\ last.path = "memory") =>
        LET order == Take(EarliestFirst(Similarities(embeddings, last.q),
                                        1..Len(texts)), last.k)
        IN  TextsIn(last.result) = [n \in 1..Len(order) |-> texts[order[n]]]


(***************************************************************************)
(* Retriever (retriever.py): the embedder, the store and the generator.    *)
(***************************************************************************)
\* Retriever.__init__: self.llm is the OllamaLLM object when use_llm is true
\* and its constructor did not raise, None otherwise.
RetrieverInit(use_llm, llm_ctor) ==
    [use_llm |-> use_llm, llm |-> use_llm /\ llm_ctor = "ok"]

InitRetriever ==
    /\ InitStore
    /\ \E use_llm \in BOOLEAN :
       \E llm_ctor \in IF use_llm THEN {"ok", "exception"} ELSE {"not_called"} :
           retriever = RetrieverInit(use_llm, llm_ctor)

\* What the embedding call does: it returns the vectors or raises.
EmbedOutcomes == {"ok", "raises"}

\* Embedder.embed_batch: the vector of each text, in order
EmbedBatch(docs) == [i \in 1..Len(docs) |-> docs[i].embedding]

\* The questions put to the retriever, with the vector embed_text gives each.
RetrieverQueries ==
    {[text |-> "a?", embedding |-> <<1, 0>>],
     [text |-> "ab?", embedding |-> <<1, 1>>]}

\* Faulty variant of AddKnowledge: the texts are embedded and stored one by one, so
\* when the embedder fails (on the last text) the earlier ones are stored.
AddKnowledgeOneByOne(docs, metadatas, embed, http) ==
    LET done == IF embed = "raises" THEN SubSeq(docs, 1, Len(docs) - 1) ELSE docs
        metas == IF metadatas.none THEN metadatas
                 ELSE [none |-> FALSE, list |-> SubSeq(metadatas.list, 1, Len(done))]
    IN  [AddTexts(TextsOf(done), EmbedBatch(done), metas, http)
            EXCEPT !.raised = (embed = "raises")]

\* add_knowledge: embed_batch, then add_texts; an exception of embed_batch
\* leaves the method before add_texts is reached.
AddKnowledge(docs, metadatas, embed, http) ==
    IF embed = "raises"
    THEN [texts |-> texts, embeddings |-> embeddings, metadata |-> metadata,
          id_counter |-> id_counter, id_to_index |-> id_to_index,
          endee_available |-> endee_available, sent |-> <<>>,
          contacted |-> FALSE, failed |-> FALSE, raised |-> TRUE]
    ELSE AddTexts(TextsOf(docs), EmbedBatch(docs), metadatas, http)

add_knowledge ==
    \E docs \in Batches(Documents), embed \in EmbedOutcomes, http \in HttpOutcomes :
        LET none == \A i \in 1..Len(docs) : docs[i].metadata = NoneValue
            metadatas == IF none
                         THEN [none |-> TRUE, list |-> <<>>]
                         ELSE [none |-> FALSE,
                               list |-> [i \in 1..Len(docs) |->
                                           StoredMetadata(docs[i])]]
        IN  \E r \in {AddKnowledge(docs, metadatas, embed, http)} :
            /\ Len(texts) + Len(docs) <= MaxDocs
            /\ Apply(r)
            /\ endee_available' = r.endee_available
            /\ remote' = IF r.contacted /\ http = "200"
                         THEN RemoteUpsert(remote, r.sent) ELSE remote
            /\ id_record' = [i \in {r.sent[n].id : n \in 1..Len(r.sent)} |->
                                 LET n == CHOOSE n \in 1..Len(r.sent) : r.sent[n].id = i
                                 IN  <<docs[n].text, StoredMetadata(docs[n])>>]
                             @@ id_record
            /\ inserted' = inserted \o SubSeq(r.texts, Len(texts) + 1, Len(r.texts))
            /\ last' = [NoCall EXCEPT !.op = "add_knowledge",
                            !.connected = endee_available,
                            !.contacted = r.contacted,
                            !.failed = r.failed,
                            !.n = Len(docs), !.count_before = Len(texts),
                            !.raised = r.raised,
                            !.args = [NoArgs EXCEPT !.embed = embed]]
            /\ UNCHANGED <<endee_client, built, chunker, thread, retriever>>

\* The largest m in lo..hi with m * m <= x (lo * lo <= x), by bisection.
RECURSIVE ISqrtIn(_, _, _)
ISqrtIn(x, lo, hi) ==
    IF lo = hi THEN lo
    ELSE LET mid == (lo + hi + 1) \div 2
         IN  IF mid * mid <= x THEN ISqrtIn(x, mid, hi)
             ELSE ISqrtIn(x, lo, mid - 1)

\* The k in 0..99 for which f"{x:.2f}" of the double nearest to
\* (2k + 1) / 200 shows k + 1 hundredths; for the others it shows k.  The
\* four halves a double holds exactly (0.125, 0.375, 0.625, 0.875) go to the
\* even hundredth; every other one goes where its double lies.
HalfRoundsUp ==
    {0, 2, 3, 5, 6, 8, 9, 11, 13, 16, 19, 22, 25, 26, 27, 31, 32,
     33, 37, 38, 39, 40, 44, 45, 46, 50, 51, 52, 53, 54, 55, 63,
     64, 65, 66, 67, 68, 75, 76, 77, 78, 79, 80, 87, 88, 89, 90,
     91, 92, 93}

\* f"{score:.2f}": the score in hundredths, rounded as the formatting of a
\* double rounds.  A score s stands for the cosine c with
\* sign(c) * c^2 = s[1] / s[2], held as the double nearest to c.  With
\* h = floor(200 |c|) = floor(sqrt(40000 c^2)) <= 200, |c| lies exactly
\* between two hundredths when h is odd and h^2 = 40000 c^2; otherwise it
\* goes to the nearer one.
Relevance(s) ==
    LET a == Abs(s[1])
        h == ISqrtIn((40000 * a) \div s[2], 0, 200)
        k == h \div 2
        half == h % 2 = 1 /\ h * h * s[2] = 40000 * a
        r == IF half THEN (IF k \in HalfRoundsUp THEN k + 1 ELSE k)
             ELSE (h + 1) \div 2
    IN  IF s[1] < 0 THEN -r ELSE r

\* The numbered lines both branches build from results: enumerate(results, 1)
\* with the score formatted and the text.
Listing(results) ==
    [i \in 1..Len(results) |->
        [number |-> i, relevance |-> Relevance(results[i][2]),
         text |-> results[i][1]]]

UseLlmArgs == {"None", "True", "False"}

\* Faulty variant of GenerateResponse: the test of results is missing from the
\* first branch, so the generator is called for an empty retrieval too.
GenerateResponseNoResultsTest(results, query, use_llm, llm_up) ==
    LET should_use_llm == IF use_llm = "None" THEN retriever.use_llm
                          ELSE use_llm = "True"
    IN  IF should_use_llm /\ retriever.llm /\ llm_up
        THEN [kind |-> "generated", prompt |-> query,
              listing |-> Listing(results), generate_calls |-> 1]
        ELSE IF results # <<>>
        THEN [kind |-> "retrieval_only", prompt |-> "",
              listing |-> Listing(results), generate_calls |-> 0]
        ELSE [kind |-> "not_enough_information", prompt |-> "",
              listing |-> <<>>, generate_calls |-> 0]

\* generate_response after retrieve has answered results: the branch taken
\* and what it hands to the generator or puts in the string it returns.
\* llm_up is what self.llm.is_available() answers.
GenerateResponse(results, query, use_llm, llm_up) ==
    LET should_use_llm == IF use_llm = "None" THEN retriever.use_llm
                          ELSE use_llm = "True"
    IN  IF results # <<>> /\ should_use_llm /\ retriever.llm /\ llm_up
        THEN [kind |-> "generated", prompt |-> query,
              listing |-> Listing(results), generate_calls |-> 1]
        ELSE IF results # <<>>
        THEN [kind |-> "retrieval_only", prompt |-> "",
              listing |-> Listing(results), generate_calls |-> 0]
        ELSE [kind |-> "not_enough_information", prompt |-> "",
              listing |-> <<>>, generate_calls |-> 0]

\* generate_response: retrieve (embed_text, then search), then the branch.
\* An exception of embed_text leaves the method before the store is searched.
generate_response ==
    \E query \in RetrieverQueries, k \in TopKs :
        \/ \E use_llm \in UseLlmArgs :
              /\ last' = [NoCall EXCEPT !.op = "generate_response",
                              !.connected = endee_available,
                              !.count_before = Len(texts),
                              !.raised = TRUE,
                              !.args = [query |-> query.text, use_llm |-> use_llm,
                                        llm_up |-> FALSE, embed |-> "raises"]]
              /\ UNCHANGED <<endee_available, endee_client, texts, embeddings,
                             metadata, id_counter, id_to_index, remote, built,
                             id_record, inserted, chunker, thread, retriever>>
        \/ \E http \in SearchOutcomes :
           \E r \in {Search(query.embedding, k, http)} :
           \E use_llm \in UseLlmArgs, llm_up \in BOOLEAN :
              /\ last' = [NoCall EXCEPT !.op = "generate_response",
                              !.connected = endee_available,
                              !.contacted = r.contacted,
                              !.failed = r.failed,
                              !.q = query.embedding, !.k = k,
                              !.result = r.result, !.path = r.path,
                              !.count_before = Len(texts),
                              !.raised = r.raised,
                              !.args = [query |-> query.text, use_llm |-> use_llm,
                                        llm_up |-> llm_up, embed |-> "ok"],
                              !.response = GenerateResponse(
                                  r.result, query.text, use_llm, llm_up)]
              /\ UNCHANGED <<endee_available, endee_client, texts, embeddings,
                             metadata, id_counter, id_to_index, remote, built,
                             id_record, inserted, chunker, thread, retriever>>

NextRetriever == add_knowledge \/ generate_response

SpecRetriever == InitRetriever /\ [][NextRetriever]_vars

\* C17: when the embedding call of add_knowledge raises, the caller gets the
\* error and the store is as before: no text, embedding, metadata or id is
\* added and nothing is sent to the remote.
C17_NoPartialWrites ==
    [][(last'.op = "add_knowledge" /\ last'.args.embed = "raises") =>
          /\ last'.raised
          /\ ~last'.contacted
          /\ texts' = texts /\ embeddings' = embeddings /\ metadata' = metadata
          /\ id_counter' = id_counter /\ id_to_index' = id_to_index
          /\ remote' = remote]_vars

C17_Witness ==
    /\ last.op = "add_knowledge" /\ last.args.embed = "raises" /\ last.raised
    /\ last.n = 2 /\ last.connected
    /\ Len(texts) = last.count_before

\* The generator is enabled for the call and available.
GeneratorAvailable(call) ==
    /\ IF call.args.use_llm = "None" THEN retriever.use_llm
       ELSE call.args.use_llm = "True"
    /\ retriever.llm
    /\ call.args.llm_up

\* C18: generate_response has three outcomes: the fixed message and no
\* generator call for an empty retrieval; one generator call with the query
\* and the results listed in ranked order when results are non-empty and the
\* generator is enabled and available; otherwise the fallback string listing
\* every result with its score, numbered 1..n in the order search gave.
C18_ThreeOutcomes ==
    (last.op = "generate_response" /\ ~last.raised) =>
        LET resp == last.response
            ranked == \A i \in 1..Len(last.result) :
                          /\ resp.listing[i].number = i
                          /\ resp.listing[i].text = last.result[i][1]
                          /\ resp.listing[i].relevance = Relevance(last.result[i][2])
        IN  /\ last.result = <<>> =>
                   (resp.kind = "not_enough_information" /\ resp.generate_calls = 0)
            /\ (last.result # <<>> /\ GeneratorAvailable(last)) =>
                   /\ resp.kind = "generated" /\ resp.generate_calls = 1
                   /\ resp.prompt = last.args.query
                   /\ Len(resp.listing) = Len(last.result) /\ ranked
            /\ (last.result # <<>> /\ ~GeneratorAvailable(last)) =>
                   /\ resp.kind = "retrieval_only" /\ resp.generate_calls = 0
                   /\ Len(resp.listing) = Len(last.result) /\ ranked

C18_Witness ==
    /\ last.op = "generate_response" /\ ~last.raised
    /\ Len(last.result) = 2
    /\ last.response.kind = "retrieval_only"
    /\ last.args.use_llm = "True" /\ retriever.llm /\ ~last.args.llm_up
    /\ last.response.listing[2].relevance < last.response.listing[1].relevance

(***************************************************************************)
(* The documented scenario of the chunker: the three-sentence text, split  *)
(* with chunk_size and overlap around 20 and 5.                            *)
(***************************************************************************)
ExampleSpread == 4
ExampleChunkSize == 20
ExampleOverlap == 5

\* "Sentence one. Sentence two. Sentence three."
ExampleText ==
    <<"S", "e", "n", "t", "e", "n", "c", "e", " ", "o", "n", "e",
      ".", " ", "S", "e", "n", "t", "e", "n", "c", "e", " ", "t",
      "w", "o", ".", " ", "S", "e", "n", "t", "e", "n", "c", "e",
      " ", "t", "h", "r", "e", "e", ".">>

\* split_text_into_chunks(ExampleText, chunk_size, overlap) has just set
\* chunks = [] and start = 0.
InitChunkerExample ==
    /\ StoreIdle
    /\ \E chunk_size \in (ExampleChunkSize - ExampleSpread)
                             ..(ExampleChunkSize + ExampleSpread) :
       \E overlap \in 0..(ExampleOverlap + ExampleSpread) :
           chunker = [pc |-> "loop", text |-> ExampleText,
                      chunk_size |-> chunk_size, overlap |-> overlap,
                      start |-> 0, chunks |-> <<>>, starts |-> <<>>]

SpecChunkerExample == InitChunkerExample /\ [][NextChunker]_vars

\* a character of a word: neither whitespace nor a sentence terminator
IsLetter(ch) == ch \notin Whitespace /\ ch # "."

\* offset p of text t lies inside a word: a letter on both sides
MidWord(t, p) ==
    /\ 0 < p
    /\ p < Len(t)
    /\ IsLetter(t[p])
    /\ IsLetter(t[p + 1])

\* C21: for the three-sentence text with chunk_size = 20 and overlap = 5,
\* every chunk ends with '.', and no window starts or ends in the middle of
\* a word.
C21_ExampleSentenceBoundaries ==
    (/\ chunker.pc = "done"
     /\ chunker.text = ExampleText
     /\ chunker.chunk_size = ExampleChunkSize
     /\ chunker.overlap = ExampleOverlap)
        => \A i \in 1..Len(chunker.chunks) :
              LET chunk == chunker.chunks[i]
                  start == chunker.starts[i]
                  end   == WindowEnd(chunker.text, start, chunker.chunk_size)
              IN  /\ chunk # <<>>
                  /\ chunk[Len(chunk)] = "."
                  /\ ~MidWord(chunker.text, start)
                  /\ ~MidWord(chunker.text, end)

(***************************************************************************)
(* Inserts of zero vectors.                                                *)
(***************************************************************************)
ZeroDocuments ==
    {[text |-> "z", embedding |-> <<0, 0>>, metadata |-> "None"]}

IsZero(v) == \A i \in 1..Len(v) : v[i] = 0

HasZero(docs) == \E i \in 1..Len(docs) : IsZero(docs[i].embedding)

\* add_text with a zero vector: the method does not look at the components
\* and runs as for any other embedding.
add_text_zero ==
    \E doc \in ZeroDocuments, http \in HttpOutcomes :
        \E r \in {AddText(doc.text, doc.embedding, doc.metadata, http)} :
            /\ Len(texts) < MaxDocs
            /\ Apply(r)
            /\ endee_available' = r.endee_available
            /\ remote' = IF r.contacted /\ http = "200"
                         THEN RemoteUpsert(remote, r.sent) ELSE remote
            /\ id_record' = [i \in {r.sent[n].id : n \in 1..Len(r.sent)} |->
                                 <<doc.text, StoredMetadata(doc)>>] @@ id_record
            /\ inserted' = Append(inserted, doc.text)
            /\ last' = [NoCall EXCEPT !.op = "add_text",
                            !.connected = endee_available,
                            !.contacted = r.contacted,
                            !.failed = r.failed,
                            !.n = 1, !.count_before = Len(texts),
                            !.raised = r.raised, !.zero = TRUE]
            /\ UNCHANGED <<endee_client, built, chunker, thread, retriever>>

\* add_texts with at least one zero vector
add_texts_zero ==
    \E docs \in Batches(Documents \cup ZeroDocuments), http \in HttpOutcomes :
        LET new_texts == [i \in 1..Len(docs) |-> docs[i].text]
            new_embeddings == [i \in 1..Len(docs) |-> docs[i].embedding]
            metadatas == [none |-> FALSE,
                          list |-> [i \in 1..Len(docs) |-> StoredMetadata(docs[i])]]
        IN  \E r \in {AddTexts(new_texts, new_embeddings, metadatas, http)} :
            /\ HasZero(docs)
            /\ Len(texts) + Len(new_texts) <= MaxDocs
            /\ Apply(r)
            /\ endee_available' = r.endee_available
            /\ remote' = IF r.contacted /\ http = "200"
                         THEN RemoteUpsert(remote, r.sent) ELSE remote
            /\ id_record' = [i \in {r.sent[n].id : n \in 1..Len(r.sent)} |->
                                 LET n == CHOOSE n \in 1..Len(r.sent) : r.sent[n].id = i
                                 IN  <<new_texts[n], StoredMetadata(docs[n])>>]
                             @@ id_record
            /\ inserted' = inserted \o new_texts
            /\ last' = [NoCall EXCEPT !.op = "add_texts",
                            !.connected = endee_available,
                            !.contacted = r.contacted,
                            !.failed = r.failed,
                            !.n = Len(new_texts), !.count_before = Len(texts),
                            !.raised = r.raised, !.zero = TRUE]
            /\ UNCHANGED <<endee_client, built, chunker, thread, retriever>>

NextZeroVector == add_text \/ add_text_zero \/ add_texts_zero

SpecZeroVector == Init /\ [][NextZeroVector]_vars

\* C22: an add_text or add_texts call given a zero vector raises an error
\* and changes nothing: the texts, embeddings, metadata, id map and remote
\* index are as before, so no stored embedding has a zero norm.
C22_ZeroVectorRejected ==
    [][last'.zero =>
          /\ last'.raised
          /\ texts' = texts /\ embeddings' = embeddings /\ metadata' = metadata
          /\ id_to_index' = id_to_index /\ remote' = remote
          /\ \A i \in 1..Len(embeddings') : ~IsZero(embeddings'[i])]_vars

(***************************************************************************)
(* EndeeClient.search on its own, for every answer of the HTTP layer: a    *)
(* status and a body.  A body is not JSON, or JSON that is no object (an   *)
(* array, a string, a number), or a JSON object, with or without the key   *)
(* "results"; the value under the key is any JSON value.                   *)
(***************************************************************************)
MaxItems == 2

\* the elements a JSON list under "results" can hold: objects with or
\* without the keys id and score, and values that are no objects
JsonItems ==
    {[type |-> "object", keys |-> {"id", "score"}, id |-> "a_0"],
     [type |-> "object", keys |-> {"id", "score"}, id |-> "b_1"],
     [type |-> "object", keys |-> {"id"}, id |-> "a_0"],
     [type |-> "object", keys |-> {"score"}, id |-> ""],
     [type |-> "string", keys |-> {}, id |-> ""]}

JsonLists == UNION {[1..n -> JsonItems] : n \in 0..MaxItems}

JsonValues ==
    {[type |-> t, items |-> <<>>] : t \in {"null", "string", "number", "object"}}
    \cup {[type |-> "list", items |-> l] : l \in JsonLists}

NoJsonValue == [type |-> "none", items |-> <<>>]

ResponseBodies ==
    {[json |-> j, has_results |-> FALSE, results |-> NoJsonValue] :
        j \in {"not_json", "not_object", "object"}}
    \cup {[json |-> "object", has_results |-> TRUE, results |-> v] :
             v \in JsonValues}

\* what session.post gives: a response, or an exception
HttpResponses ==
    {[status |-> st, body |-> b] : st \in {"200", "404", "500"},
                                   b \in ResponseBodies}
    \cup {[status |-> "exception",
           body |-> [json |-> "not_json", has_results |-> FALSE,
                     results |-> NoJsonValue]]}

PyNone == [none |-> TRUE, value |-> NoJsonValue]

\* EndeeClient.search: None for an exception of the request, for a status
\* other than 200, and when response.json() or result.get raises (a body
\* that is not JSON, or JSON that is no object and so has no get); else
\* result.get('results', []): the value under the key whatever it is (a JSON
\* null is Python's None), and the empty list when the key is absent.
EndeeClientSearch(response) ==
    IF response.status = "exception" THEN PyNone
    ELSE IF response.status = "200"
    THEN IF response.body.json = "object"
         THEN IF ~response.body.has_results
              THEN [none |-> FALSE, value |-> [type |-> "list", items |-> <<>>]]
              ELSE IF response.body.results.type = "null"
              THEN PyNone
              ELSE [none |-> FALSE, value |-> response.body.results]
         ELSE PyNone
    ELSE PyNone

InitEndeeSearch == StoreIdle /\ chunker = NoChunker

endee_search ==
    \E response \in HttpResponses :
        /\ last' = [NoCall EXCEPT !.op = "EndeeClient.search",
                        !.args = response,
                        !.response = EndeeClientSearch(response)]
        /\ UNCHANGED <<endee_available, endee_client, texts, embeddings,
                       metadata, id_counter, id_to_index, remote, built,
                       id_record, inserted, chunker, thread, retriever>>

\* EndeeClient.delete_index: the DELETE request; a 200 means the server has
\* dropped the index with its vectors, and the call answers True; any other
\* status or an exception answers False
delete_index ==
    \E http \in HttpOutcomes :
        /\ remote' = IF EndeeDeleteIndex(http) THEN {} ELSE remote
        /\ last' = [NoCall EXCEPT !.op = "EndeeClient.delete_index",
                        !.failed = ~EndeeDeleteIndex(http)]
        /\ UNCHANGED <<endee_available, endee_client, texts, embeddings,
                       metadata, id_counter, id_to_index, built,
                       id_record, inserted, chunker, thread, retriever>>

NextEndeeSearch == endee_search \/ delete_index

SpecEndeeSearch == InitEndeeSearch /\ [][NextEndeeSearch]_vars

\* the shape {results: [{id, score}, ...]}
ExpectedShape(body) ==
    /\ body.json = "object"
    /\ body.has_results
    /\ body.results.type = "list"
    /\ \A i \in 1..Len(body.results.items) :
          /\ body.results.items[i].type = "object"
          /\ {"id", "score"} \subseteq body.results.items[i].keys

\* C23: EndeeClient.search answers None whenever the status is not 200 or
\* the body does not have the shape {results: [{id, score}, ...]}; a value
\* other than None is the well-formed result list of a 200 response.
C23_SearchFailureReported ==
    last.op = "EndeeClient.search" =>
        ((last.args.status # "200" \/ ~ExpectedShape(last.args.body))
             => last.response.none)

(***************************************************************************)
(* Retriever.get_stats, which returns VectorStore.get_stats() as it is.    *)
(***************************************************************************)
\* VectorStore.get_stats: the dict it returns
GetStats ==
    [total_documents |-> Len(texts),
     embedding_dimension |-> IF Len(embeddings) > 0 THEN Len(embeddings[1]) ELSE 0,
     storage_type |-> "in-memory"]

get_stats ==
    /\ last' = [NoCall EXCEPT !.op = "get_stats",
                    !.connected = endee_available,
                    !.count_before = Len(texts),
                    !.response = GetStats]
    /\ UNCHANGED <<endee_available, endee_client, texts, embeddings, metadata,
                   id_counter, id_to_index, remote, built, id_record,
                   inserted, chunker, thread, retriever>>

NextStats == Next \/ get_stats

SpecStats == Init /\ [][NextStats]_vars

\* C24: get_stats reports the store as it is now: the count is the number of
\* stored records, the dimension is the one the store was constructed with
\* (also when the store is empty), and the backend names the remote when the
\* store is Connected and the local lists when it is Unavailable.
C24_StatsCurrent ==
    last.op = "get_stats" =>
        /\ last.response.total_documents = Len(texts)
        /\ last.response.embedding_dimension = Dimension
        /\ endee_available <=> last.response.storage_type # "in-memory"

(***************************************************************************)
(* Hydration of remote results: search, with the list the client answered  *)
(* kept next to the result (last.args).                                    *)
(***************************************************************************)
search_remote ==
    \E q \in Queries, k \in TopKs, http \in SearchOutcomes :
        \E r \in {Search(q, k, http)} :
            /\ endee_available' = r.endee_available
            /\ last' = [NoCall EXCEPT !.op = "search",
                            !.connected = endee_available,
                            !.contacted = r.contacted,
                            !.failed = r.failed,
                            !.q = q, !.k = k, !.result = r.result,
                            !.path = r.path, !.count_before = Len(texts),
                            !.raised = r.raised,
                            !.args = IF r.contacted
                                     THEN EndeeSearch(http,
                                              RemoteSearchBody(remote, q, k))
                                     ELSE [ok |-> FALSE, items |-> <<>>]]
            /\ UNCHANGED <<endee_client, texts, embeddings, metadata, id_counter,
                           id_to_index, remote, built, id_record,
                           inserted, chunker, thread, retriever>>

NextHydration == add_text \/ add_texts \/ search_remote \/ clear

SpecHydration == Init /\ [][NextHydration]_vars

\* the items of a remote answer whose id is in the id map, in remote order
RECURSIVE KnownItems(_)
KnownItems(items) ==
    IF items = <<>> THEN <<>>
    ELSE (IF Head(items).id \in DOMAIN id_to_index THEN <<Head(items)>> ELSE <<>>)
         \o KnownItems(Tail(items))

\* C25: when the store is Connected and the remote search succeeds with at
\* least one id known locally, search returns one tuple (text, remote score,
\* metadata) per known item among the first top_k, in remote order, taken
\* from the local position the id maps to; unknown ids are skipped, nothing
\* is raised and no record of the local search is added.
C25_RemoteHydration ==
    LET known == KnownItems(Take(last.args.items, last.k))
    IN  (/\ last.op = "search" /\ last.connected
         /\ last.args.ok /\ known # <<>>)
        => /\ ~last.raised
           /\ last.path = "endee"
           /\ Len(last.result) = Len(known)
           /\ \A n \in 1..Len(known) :
                 LET idx == id_to_index[known[n].id]
                 IN  /\ idx < Len(texts)
                     /\ last.result[n] = <<texts[idx + 1], known[n].score,
                                           metadata[idx + 1]>>

\* C26: no two records inserted into one store receive the same id, whatever
\* add_text, add_texts and clear calls came before and also for a text
\* inserted twice: the ids generated by a call are all new (id_record holds
\* every id generated so far).
C26_IdsUnique ==
    [][(IsAdd(last') /\ last'.contacted)
          => Cardinality(DOMAIN id_record')
                 = Cardinality(DOMAIN id_record) + last'.n]_vars

\* C27: for every window that stops before the end of the text: when the
\* last '.' of the window lies at or after the window's midpoint (offset >=
\* chunk_size / 2) the chunk ends right after that '.', otherwise the chunk
\* is the full window of chunk_size characters (chunks are stored trimmed).
C27_SentenceBoundaryRule ==
    \A i \in 1..Len(chunker.chunks) :
        LET start == chunker.starts[i]
            end == start + chunker.chunk_size
            last_period == RFind(Slice(chunker.text, start, end))
        IN  end < Len(chunker.text) =>
                chunker.chunks[i] =
                    IF last_period >= 0 /\ 2 * last_period >= chunker.chunk_size
                    THEN Strip(Slice(chunker.text, start, start + last_period + 1))
                    ELSE Strip(Slice(chunker.text, start, end))

(***************************************************************************)
(* The three parallel lists of the store under Retriever.add_knowledge     *)
(* with the metadatas argument as callers can pass it: None, or a list of  *)
(* dicts of any length.  Here inserted keeps, for each text passed since   *)
(* the last clear, the whole record: the text, its vector, and the dict    *)
(* passed at its position ({} under None; "absent" when the list is too    *)
(* short to have one).                                                     *)
(***************************************************************************)
\* the dicts callers put in the list
MetadataDicts == {"{source}"}

MetadataLists == UNION {[1..n -> MetadataDicts] : n \in 0..MaxBatch}

MetadatasArgs ==
    {[none |-> TRUE, list |-> <<>>]}
    \cup {[none |-> FALSE, list |-> l] : l \in MetadataLists}

RecordsOf(docs, metadatas) ==
    [i \in 1..Len(docs) |->
        [text |-> docs[i].text,
         embedding |-> docs[i].embedding,
         metadata |-> IF metadatas.none THEN EmptyDict
                      ELSE IF i <= Len(metadatas.list) THEN metadatas.list[i]
                      ELSE "absent"]]

add_knowledge_metadatas ==
    \E docs \in Batches(Documents), metadatas \in MetadatasArgs,
       embed \in EmbedOutcomes, http \in HttpOutcomes :
        \E r \in {AddKnowledge(docs, metadatas, embed, http)} :
            /\ Len(texts) + Len(docs) <= MaxDocs
            /\ Apply(r)
            /\ endee_available' = r.endee_available
            /\ remote' = IF r.contacted /\ http = "200"
                         THEN RemoteUpsert(remote, r.sent) ELSE remote
            /\ id_record' = [i \in {r.sent[n].id : n \in 1..Len(r.sent)} |->
                                 LET n == CHOOSE n \in 1..Len(r.sent) : r.sent[n].id = i
                                 IN  <<docs[n].text, RecordsOf(docs, metadatas)[n].metadata>>]
                             @@ id_record
            /\ inserted' = IF r.raised THEN inserted
                           ELSE inserted \o RecordsOf(docs, metadatas)
            /\ last' = [NoCall EXCEPT !.op = "add_knowledge",
                            !.connected = endee_available,
                            !.contacted = r.contacted,
                            !.failed = r.failed,
                            !.n = Len(docs), !.count_before = Len(texts),
                            !.raised = r.raised,
                            !.args = [NoArgs EXCEPT !.embed = embed]]
            /\ UNCHANGED <<endee_client, built, chunker, thread, retriever>>

\* Retriever.clear_knowledge: VectorStore.clear
clear_knowledge == clear

NextParallel == add_knowledge_metadatas \/ clear_knowledge

\* Retriever(use_llm=False) around a store constructed in any of its ways
InitParallel == InitStore /\ retriever = RetrieverInit(FALSE, "not_called")

SpecParallel == InitParallel /\ [][NextParallel]_vars

\* C28: texts, embeddings and metadata have one length, and position i of
\* the three holds the text, the vector and the dict of one inserted record.
C28_ParallelArrays ==
    /\ Len(texts) = Len(embeddings)
    /\ Len(texts) = Len(metadata)
    /\ Len(texts) = Len(inserted)
    /\ \A i \in 1..Len(texts) :
          [text |-> texts[i], embedding |-> embeddings[i],
           metadata |-> metadata[i]] = inserted[i]

(***************************************************************************)
(* Two threads calling add_text on one Connected VectorStore.  add_text    *)
(* takes no lock, so a thread switch can fall between any two statements,  *)
(* and inside self._id_counter += 1 between its read and its write.  Here  *)
(* thread holds one record per thread, and inserted keeps, for each call   *)
(* that has returned, the text it stored and the id it generated.          *)
(***************************************************************************)
Adders == {"A", "B"}

IdleInsert == [pc |-> "idle", doc |-> <<>>, http |-> "none", text_index |-> 0,
               vector_id |-> "", loaded |-> 0]

\* A store constructed with the server reachable, before any call.
InitAdders ==
    /\ endee_available = TRUE
    /\ endee_client = TRUE
    /\ built = [use_endee |-> TRUE, ctor |-> "ok", health |-> "200"]
    /\ texts = <<>>
    /\ embeddings = <<>>
    /\ metadata = <<>>
    /\ id_counter = 0
    /\ id_to_index = EmptyMap
    /\ remote = {[id |-> StaleId, vector |-> <<-1, 0>>]}
    /\ id_record = EmptyMap
    /\ inserted = <<>>
    /\ \E create \in HttpOutcomes :
          last = [NoCall EXCEPT !.op = "__init__", !.create = create]
    /\ chunker = NoChunker
    /\ thread = [t \in Adders |-> IdleInsert]
    /\ retriever = NoRetriever

\* calls entered whose text is not in self.texts yet
Pending == Cardinality({t \in Adders : thread[t].pc \in {"index", "texts"}})

\* add_text(text, embedding, metadata) is called
i_call(t) ==
    /\ thread[t].pc = "idle"
    /\ Len(texts) + Pending < MaxDocs
    /\ \E doc \in Documents, http \in HttpOutcomes :
          thread' = [thread EXCEPT ![t] =
                        [IdleInsert EXCEPT !.pc = "index", !.doc = doc,
                                           !.http = http]]
    /\ UNCHANGED <<texts, embeddings, metadata, id_counter, id_to_index, remote,
                   id_record, inserted, other_vars>>

\* line 88: text_index = len(self.texts)
i_index(t) ==
    /\ thread[t].pc = "index"
    /\ thread' = [thread EXCEPT ![t].text_index = Len(texts), ![t].pc = "texts"]
    /\ UNCHANGED <<texts, embeddings, metadata, id_counter, id_to_index, remote,
                   id_record, inserted, other_vars>>

\* line 89: self.texts.append(text)
i_texts(t) ==
    /\ thread[t].pc = "texts"
    /\ texts' = Append(texts, thread[t].doc.text)
    /\ thread' = [thread EXCEPT ![t].pc = "embeddings"]
    /\ UNCHANGED <<embeddings, metadata, id_counter, id_to_index, remote,
                   id_record, inserted, other_vars>>

\* line 90: self.embeddings.append(embedding)
i_embeddings(t) ==
    /\ thread[t].pc = "embeddings"
    /\ embeddings' = Append(embeddings, thread[t].doc.embedding)
    /\ thread' = [thread EXCEPT ![t].pc = "metadata"]
    /\ UNCHANGED <<texts, metadata, id_counter, id_to_index, remote,
                   id_record, inserted, other_vars>>

\* lines 91-94: self.metadata.append(...), then the test of the remote branch
i_metadata(t) ==
    /\ thread[t].pc = "metadata"
    /\ metadata' = Append(metadata, StoredMetadata(thread[t].doc))
    /\ thread' = [thread EXCEPT ![t] =
                     IF UseRemote THEN [@ EXCEPT !.pc = "id"] ELSE IdleInsert]
    /\ UNCHANGED <<texts, embeddings, id_counter, id_to_index, remote,
                   id_record, inserted, other_vars>>

\* _generate_id line 82: unique_str = f"{text}_{self._id_counter}"
i_id(t) ==
    /\ thread[t].pc = "id"
    /\ thread' = [thread EXCEPT
                     ![t].vector_id = GenerateId(thread[t].doc.text, id_counter),
                     ![t].pc = "load"]
    /\ UNCHANGED <<texts, embeddings, metadata, id_counter, id_to_index, remote,
                   id_record, inserted, other_vars>>

\* line 83, self._id_counter += 1: the read
i_load(t) ==
    /\ thread[t].pc = "load"
    /\ thread' = [thread EXCEPT ![t].loaded = id_counter, ![t].pc = "store"]
    /\ UNCHANGED <<texts, embeddings, metadata, id_counter, id_to_index, remote,
                   id_record, inserted, other_vars>>

\* line 83, self._id_counter += 1: the write
i_store(t) ==
    /\ thread[t].pc = "store"
    /\ id_counter' = thread[t].loaded + 1
    /\ thread' = [thread EXCEPT ![t].pc = "map"]
    /\ UNCHANGED <<texts, embeddings, metadata, id_to_index, remote,
                   id_record, inserted, other_vars>>

\* line 104: self.id_to_index[vector_id] = text_index
i_map(t) ==
    /\ thread[t].pc = "map"
    /\ id_to_index' = (thread[t].vector_id :> thread[t].text_index) @@ id_to_index
    /\ thread' = [thread EXCEPT ![t].pc = "insert"]
    /\ UNCHANGED <<texts, embeddings, metadata, id_counter, remote,
                   id_record, inserted, other_vars>>

\* line 107: insert_vectors, and the call returns
i_insert(t) ==
    /\ thread[t].pc = "insert"
    /\ remote' = IF EndeeInsertVectors(thread[t].http)
                 THEN RemoteUpsert(remote, <<[id |-> thread[t].vector_id,
                                              vector |-> thread[t].doc.embedding]>>)
                 ELSE remote
    /\ id_record' = (thread[t].vector_id :>
                        <<thread[t].doc.text, StoredMetadata(thread[t].doc)>>)
                    @@ id_record
    /\ inserted' = Append(inserted, [text |-> thread[t].doc.text,
                                     id |-> thread[t].vector_id])
    /\ thread' = [thread EXCEPT ![t] = IdleInsert]
    /\ UNCHANGED <<texts, embeddings, metadata, id_counter, id_to_index,
                   other_vars>>

NextAdders ==
    \E t \in Adders :
        \/ i_call(t) \/ i_index(t) \/ i_texts(t) \/ i_embeddings(t)
        \/ i_metadata(t) \/ i_id(t) \/ i_load(t) \/ i_store(t)
        \/ i_map(t) \/ i_insert(t)

SpecAdders == InitAdders /\ [][NextAdders]_vars

\* C29: under every interleaving of add_text calls of two threads on a
\* Connected store, the records inserted receive distinct ids, and each id
\* maps to the local position that holds the text inserted with it.
C29_ConcurrentIdsCorrect ==
    /\ \A i, j \in 1..Len(inserted) :
          i # j => inserted[i].id # inserted[j].id
    /\ \A i \in 1..Len(inserted) :
          /\ inserted[i].id \in DOMAIN id_to_index
          /\ id_to_index[inserted[i].id] < Len(texts)
          /\ texts[id_to_index[inserted[i].id] + 1] = inserted[i].text

\* the window of the i-th iteration, as offsets [from, to) into the text
WindowOf(i) ==
    [from |-> chunker.starts[i],
     to |-> Min(WindowEnd(chunker.text, chunker.starts[i], chunker.chunk_size),
                Len(chunker.text))]

\* C30: for 0 <= overlap < chunk_size the first window starts at 0 and each
\* next window starts at or before the end of the previous one; when the
\* call returns, every character position of the text lies in a window, and
\* every non-whitespace character lies in the chunk of a window that holds
\* its position (a chunk is a piece text[a:b] of its window).
C30_ChunkCoverage ==
    /\ \A i \in 1..Len(chunker.starts) :
          /\ i = 1 => chunker.starts[i] = 0
          /\ i > 1 => chunker.starts[i] <= WindowOf(i - 1).to
          /\ (i = Len(chunker.starts) /\ chunker.start < Len(chunker.text))
                => chunker.start <= WindowOf(i).to
    /\ chunker.pc = "done" =>
          \A p \in 0..(Len(chunker.text) - 1) :
              /\ \E i \in 1..Len(chunker.starts) :
                    WindowOf(i).from <= p /\ p < WindowOf(i).to
              /\ chunker.text[p + 1] \notin Whitespace =>
                    \E i \in 1..Len(chunker.chunks) :
                        \E a \in WindowOf(i).from..p :
                            \E b \in (p + 1)..WindowOf(i).to :
                                chunker.chunks[i] = SubSeq(chunker.text, a + 1, b)

\* a call has returned after three windows or more, with an overlap, one
\* window shortened to a sentence end and one chunk trimmed
C30_Witness ==
    /\ chunker.pc = "done"
    /\ Len(chunker.chunks) >= 3
    /\ chunker.overlap > 0
    /\ \E i \in 1..Len(chunker.starts) :
          WindowOf(i).to < chunker.starts[i] + chunker.chunk_size
          /\ WindowOf(i).to < Len(chunker.text)
    /\ \E i \in 1..Len(chunker.chunks) :
          Len(chunker.chunks[i]) < WindowOf(i).to - WindowOf(i).from
    /\ \E p \in 1..Len(chunker.text) : chunker.text[p] \notin Whitespace

====
